---- MODULE Spec2Model ----
(***************************************************************************)
(* pw_entropy (src/src/lib.rs): the reduction pipeline of                  *)
(* PasswordInfo::for_password, its classification and get_entropy.         *)
(*                                                                         *)
(* A character is a one-character string, a text (Vec<char>) a sequence of *)
(* characters.  The grave accent U+0060, which a TLA+ string cannot hold,  *)
(* is the string GRAVE.  An f64 is a record [kind, val]: kind is "finite",          *)
(* "neg_inf", "pos_inf" or "nan"; val is the magnitude of a finite value   *)
(* rounded down to an integer (0 otherwise).                               *)
(***************************************************************************)
EXTENDS Integers, Sequences, FiniteSets, TLC

\* ------------------------------------------------------------- bounds ----

\* An input text is the concatenation of at most MaxFrags fragments.
MaxFrags == 3

\* ------------------------------------------------- character tables ------

REPLACE_CHARS == <<"!", "@", "$", "&", "*">>

SEPARATOR_CHARS == <<"_", "-", ".", ",", " ">>

OTHER_SPECIAL_CHARS ==
    <<"\"", "#", "%", "'", "(", ")", "+", "/", ":", ";", "<", "=", ">", "?",
      "[", "\\", "]", "^", "{", "|", "}", "~">>

LOWER_CHARS ==
    <<"a", "b", "c", "d", "e", "f", "g", "h", "i", "j", "k", "l", "m",
      "n", "o", "p", "q", "r", "s", "t", "u", "v", "w", "x", "y", "z">>

UPPER_CHARS ==
    <<"A", "B", "C", "D", "E", "F", "G", "H", "I", "J", "K", "L", "M",
      "N", "O", "P", "Q", "R", "S", "T", "U", "V", "W", "X", "Y", "Z">>

DIGIT_CHARS == <<"0", "1", "2", "3", "4", "5", "6", "7", "8", "9">>

\* Common password sequences to remove, in table order.
COMMON_SEQUENCES ==
    << <<"a", "s", "d", "f">>,
       <<"j", "k", "l", ";">>,
       <<";", "l", "k", "j">>,
       <<"f", "d", "s", "a">>,
       <<"a", "s", "d", "f", "g", "h", "j", "k", "l">>,
       <<"a", "s", "d", "f", " ", ";", "l", "k", "j">>,
       <<"0", "1", "2", "3", "4", "5", "6", "7", "8", "9">>,
       <<"q", "w", "e", "r", "t", "y", "u", "i", "o", "p">>,
       <<"q", "w", "e", "r", "t", "y">>,
       <<"z", "x", "c", "v", "b", "n", "m">>,
       <<"a", "b", "c", "d", "e", "f", "g", "h", "i", "j", "k", "l", "m",
         "n", "o", "p", "q", "r", "s", "t", "u", "v", "w", "x", "y", "z">>,
       <<"p", "a", "s", "s", "w", "o", "r", "d", "1">>,
       <<"p", "a", "s", "s", "w", "o", "r", "d", "!">>,
       <<"p", "a", "s", "s", "w", "o", "r", "d">>,
       <<"P", "a", "s", "s", "w", "o", "r", "d">>,
       <<"a", "s", "s", "w", "o", "r", "d">>,
       <<"p", "i", "c", "t", "u", "r", "e", "1">>,
       <<"P", "i", "c", "t", "u", "r", "e", "1">>,
       <<"p", "i", "c", "t", "u", "r", "e">>,
       <<"P", "i", "c", "t", "u", "r", "e">>,
       <<"a", "s", "d", "f">>,
       <<"r", "t", "y", "5", "6", "7">>,
       <<"s", "e", "n", "h", "a">>,
       <<"a", "b", "c", "1", "2", "3">>,
       <<"M", "i", "l", "l", "i", "o", "n", "2">>,
       <<"0", "0", "0", "0", "0", "0">>,
       <<"1", "2", "3", "4">>,
       <<"i", "l", "o", "v", "e", "y", "o", "u">>,
       <<"a", "a", "r", "o", "n", "4", "3", "1">>,
       <<"q", "q", "w", "w", "1", "1", "2", "2">>,
       <<"1", "2", "3", "1", "2", "3">> >>

\* The grave accent, U+0060: a character of none of the six tables.
GRAVE == "GRAVE"

\* ----------------------------------------------------- slice helpers -----

\* The set of the elements of a sequence.
Range(s) == {s[i] : i \in 1..Len(s)}

\* Iterator::take(n) on a slice: its first n elements (all, when shorter).
Take(s, n) == SubSeq(s, 1, IF n < Len(s) THEN n ELSE Len(s))

\* Iterator::rev on a slice.
Rev(s) == [i \in 1..Len(s) |-> s[Len(s) + 1 - i]]

\* Iterator::zip: the pairs up to the shorter of the two.
Zip(a, b) ==
    [i \in 1..(IF Len(a) < Len(b) THEN Len(a) ELSE Len(b)) |-> <<a[i], b[i]>>]

\* char::to_lowercase on the modelled characters: an upper-case letter maps
\* to the lower-case letter of the same rank, any other character to itself.
ToLowercase(c) ==
    IF \E i \in 1..Len(UPPER_CHARS) : UPPER_CHARS[i] = c
    THEN LOWER_CHARS[CHOOSE i \in 1..Len(UPPER_CHARS) : UPPER_CHARS[i] = c]
    ELSE c

\* ------------------------------------------------ remove_palindrome ------

\* Variant: the half rounded down, the middle character left out.
HalfFloor(n) == n \div 2

\* len / 2 + len % 2

Half(n) == (n \div 2) + (n % 2)

\* Variant: the kept half taken from the lower-cased iterator.
remove_palindrome_lowercased(password) ==
    LET half == Half(Len(password))
        forwards == [i \in 1..Len(Take(password, half)) |->
                        ToLowercase(Take(password, half)[i])]
        backwards == [i \in 1..Len(Take(Rev(password), half)) |->
                        ToLowercase(Take(Rev(password), half)[i])]
    IN  IF \A i \in 1..Len(Zip(forwards, backwards)) :
              Zip(forwards, backwards)[i][1] = Zip(forwards, backwards)[i][2]
        THEN forwards ELSE password

remove_palindrome(password) ==
    LET half == Half(Len(password))
        forwards == [i \in 1..Len(Take(password, half)) |->
                        ToLowercase(Take(password, half)[i])]
        backwards == [i \in 1..Len(Take(Rev(password), half)) |->
                        ToLowercase(Take(Rev(password), half)[i])]
        is_palindrome ==
            \A i \in 1..Len(Zip(forwards, backwards)) :
                Zip(forwards, backwards)[i][1] = Zip(forwards, backwards)[i][2]
    IN  IF is_palindrome THEN Take(password, half) ELSE password

\* -------------------------------------- remove_repeating_characters ------

\* Vec::dedup: an element equal to the last one kept is dropped.
RECURSIVE Dedup(_, _)
Dedup(kept, rest) ==
    IF rest = <<>> THEN kept
    ELSE IF kept # <<>> /\ kept[Len(kept)] = Head(rest)
         THEN Dedup(kept, Tail(rest))
         ELSE Dedup(Append(kept, Head(rest)), Tail(rest))

\* Variant: every later copy of a character dropped, adjacent or not.
RECURSIVE DedupAnywhere(_, _)
DedupAnywhere(kept, rest) ==
    IF rest = <<>> THEN kept
    ELSE IF Head(rest) \in Range(kept)
         THEN DedupAnywhere(kept, Tail(rest))
         ELSE DedupAnywhere(Append(kept, Head(rest)), Tail(rest))

remove_all_duplicates(password) == DedupAnywhere(<<>>, password)

remove_repeating_characters(password) == Dedup(<<>>, password)

\* ---------------------------------------- remove_common_sequences --------

\* Variant: only the window at the start of the text is compared.
PositionAtStart(password, sequence) ==
    IF Len(sequence) <= Len(password)
       /\ SubSeq(password, 1, Len(sequence)) = sequence
    THEN 1 ELSE 0

\* password.windows(len).position(|w| w.eq(&sequence)): the 1-based index of
\* the leftmost window equal to the sequence, 0 for None.
Position(password, sequence) ==
    LET len == Len(sequence)
        hits == {i \in 1..(Len(password) - len + 1) :
                    SubSeq(password, i, i + len - 1) = sequence}
    IN  IF hits = {} THEN 0
        ELSE CHOOSE i \in hits : \A j \in hits : i <= j

\* Variant: an empty range drained.
DrainNothing(password, position, len) == password

\* password.drain(position..(position + len)), dropped.

Drain(password, position, len) ==
    SubSeq(password, 1, position - 1)
    \o SubSeq(password, position + len, Len(password))

\* The while-let loop of one sequence.  (Each recursion is over a
\* one-element set, which fixes the drained text before the next search.)
RECURSIVE RemoveAll(_, _)
RemoveAll(password, sequence) ==
    IF Position(password, sequence) = 0 THEN password
    ELSE CHOOSE r \in {RemoveAll(drained, sequence) :
                          drained \in {Drain(password,
                                             Position(password, sequence),
                                             Len(sequence))}} : TRUE

\* The for_each over the table, from entry k on.
RECURSIVE RemoveFrom(_, _)
RemoveFrom(password, k) ==
    IF k > Len(COMMON_SEQUENCES) THEN password
    ELSE CHOOSE r \in {RemoveFrom(removed, k + 1) :
                          removed \in {RemoveAll(password, COMMON_SEQUENCES[k])}} :
             TRUE

remove_common_sequences(password) == RemoveFrom(password, 1)

\* --------------------------------------------------- classification ------

\* password.contains(&c)
Contains(password, c) == \E i \in 1..Len(password) : password[i] = c

\* TABLE.chars().any(|c| password.contains(&c))
any(table, password) == \E i \in 1..Len(table) : Contains(password, table[i])

\* Variant: the base summed over the matching characters of the text, not
\* over the sizes of the tables.
PasswordInfoCountingMatches(password) ==
    LET count(table) ==
            Cardinality({i \in 1..Len(password) : password[i] \in Range(table)})
    IN  [length |-> Len(password),
         base |-> (count(REPLACE_CHARS) + count(SEPARATOR_CHARS)
                   + count(OTHER_SPECIAL_CHARS) + count(LOWER_CHARS)
                   + count(UPPER_CHARS) + count(DIGIT_CHARS)) % 65536,
         has_replace |-> any(REPLACE_CHARS, password),
         has_seperator |-> any(SEPARATOR_CHARS, password),
         has_other_special |-> any(OTHER_SPECIAL_CHARS, password),
         has_lower |-> any(LOWER_CHARS, password),
         has_upper |-> any(UPPER_CHARS, password),
         has_digit |-> any(DIGIT_CHARS, password)]

\* The record for_password builds from the reduced working text.
PasswordInfoOf(password) ==
    LET has_replace == any(REPLACE_CHARS, password)
        has_seperator == any(SEPARATOR_CHARS, password)
        has_other_special == any(OTHER_SPECIAL_CHARS, password)
        has_lower == any(LOWER_CHARS, password)
        has_upper == any(UPPER_CHARS, password)
        has_digits == any(DIGIT_CHARS, password)
        base == (IF has_replace THEN Len(REPLACE_CHARS) ELSE 0)
              + (IF has_seperator THEN Len(SEPARATOR_CHARS) ELSE 0)
              + (IF has_other_special THEN Len(OTHER_SPECIAL_CHARS) ELSE 0)
              + (IF has_lower THEN Len(LOWER_CHARS) ELSE 0)
              + (IF has_upper THEN Len(UPPER_CHARS) ELSE 0)
              + (IF has_digits THEN Len(DIGIT_CHARS) ELSE 0)
    IN  [length |-> Len(password),
         base |-> base % 65536,
         has_replace |-> has_replace,
         has_seperator |-> has_seperator,
         has_other_special |-> has_other_special,
         has_lower |-> has_lower,
         has_upper |-> has_upper,
         has_digit |-> has_digits]

\* for_password as one function of the input text.
for_password(text) ==
    PasswordInfoOf(
        remove_repeating_characters(
            remove_common_sequences(
                remove_palindrome(text))))

\* ------------------------------------------------------------ f64 --------

Finite(v) == [kind |-> "finite", val |-> v]

NegInf == [kind |-> "neg_inf", val |-> 0]

PosInf == [kind |-> "pos_inf", val |-> 0]

NaN == [kind |-> "nan", val |-> 0]

\* IEEE-754 addition.
FAdd(x, y) ==
    IF x.kind = "nan" \/ y.kind = "nan" THEN NaN
    ELSE IF x.kind = "finite" /\ y.kind = "finite" THEN Finite(x.val + y.val)
    ELSE IF x.kind = "finite" THEN y
    ELSE IF y.kind = "finite" THEN x
    ELSE IF x.kind = y.kind THEN x
    ELSE NaN

\* IEEE-754 multiplication (used by the variant of log_power only).
FMul(x, y) ==
    IF x.kind = "nan" \/ y.kind = "nan" THEN NaN
    ELSE IF x.kind = "finite" /\ y.kind = "finite" THEN Finite(x.val * y.val)
    ELSE IF (x.kind = "finite" /\ x.val = 0) \/ (y.kind = "finite" /\ y.val = 0)
         THEN NaN
    ELSE LET neg(z) == z.kind = "neg_inf" \/ (z.kind = "finite" /\ z.val < 0)
         IN  IF neg(x) = neg(y) THEN PosInf ELSE NegInf

\* The integer part of log_b(n), for integers n >= 1 and b >= 2.
RECURSIVE ILog(_, _)
ILog(n, b) == IF n < b THEN 0 ELSE 1 + ILog(n \div b, b)

\* f64::log(self, base) for a base above 1: the logarithm of zero is
\* negative infinity, that of a negative number or of NaN is NaN.
Log(x, b) ==
    IF x.kind = "nan" \/ x.kind = "neg_inf" THEN NaN
    ELSE IF x.kind = "pos_inf" THEN PosInf
    ELSE IF x.val < 0 THEN NaN
    ELSE IF x.val = 0 THEN NegInf
    ELSE Finite(ILog(x.val, b))

\* iter::repeat(x).take(n).sum(): n additions, starting from zero.
RECURSIVE SumRepeat(_, _)
SumRepeat(x, n) == IF n = 0 THEN Finite(0) ELSE FAdd(SumRepeat(x, n - 1), x)

\* Variant: one multiplication in place of the sum.
log_power_product(exp_base, power, log_base) ==
    FMul(Finite(power), Log(exp_base, log_base))

\* log_b(e^p), summed in log space.

log_power(exp_base, power, log_base) ==
    SumRepeat(Log(exp_base, log_base), power)

\* ---------------------------------------------------------- inputs -------

\* The pieces the input texts are built from: one character of each class
\* and one of none, and pieces of entries of COMMON_SEQUENCES.
Fragments ==
    { <<"a">>, <<"A">>, <<"0">>, <<"!">>, <<"_", "_">>, <<";">>, <<GRAVE>>,
      <<"s", "d", "f">>, <<"a", "s", "d", "f">>, <<"j", "k", "l">>,
      <<"1", "2", "3", "4">> }

RECURSIVE Texts(_)
Texts(n) ==
    IF n = 0 THEN {<<>>}
    ELSE Texts(n - 1) \cup {t \o f : t \in Texts(n - 1), f \in Fragments}

Inputs == Texts(MaxFrags)

\* ----------------------------------------------------------- state -------

VARIABLES
    input,      \* the text for_password is called with
    password,   \* the working text (the local Vec<char>)
    step,       \* position in Stages
    seqIdx,     \* the entry of COMMON_SEQUENCES the for_each is at
    drains,     \* the number of drain calls made so far
    info,       \* the PasswordInfo record, once built
    entropy     \* the value of get_entropy, once called

vars == <<input, password, step, seqIdx, drains, info, entropy>>

\* Variant: the known sequences removed before the palindrome is reduced.
StagesSequencesFirst ==
    <<"sequences", "palindrome", "repeating", "classify", "done", "entropy">>

\* The statements of for_password in program order, then the record's use.
Stages ==
    <<"palindrome", "sequences", "repeating", "classify", "done", "entropy">>

pc == Stages[step]

Unset == [kind |-> "unset", val |-> 0]

Init ==
    /\ input \in Inputs
    /\ password = input
    /\ step = 1
    /\ seqIdx = 1
    /\ drains = 0
    /\ info = PasswordInfoOf(<<>>)
    /\ entropy = Unset

RemovePalindrome ==
    /\ pc = "palindrome"
    /\ password' = remove_palindrome(password)
    /\ step' = step + 1
    /\ UNCHANGED <<input, seqIdx, drains, info, entropy>>

\* One iteration of the while-let loop: the leftmost match is drained.
SeqDrain ==
    /\ pc = "sequences"
    /\ seqIdx <= Len(COMMON_SEQUENCES)
    /\ Position(password, COMMON_SEQUENCES[seqIdx]) # 0
    /\ password' = Drain(password,
                         Position(password, COMMON_SEQUENCES[seqIdx]),
                         Len(COMMON_SEQUENCES[seqIdx]))
    /\ drains' = drains + 1
    /\ UNCHANGED <<input, step, seqIdx, info, entropy>>

\* The while-let loop ends: the next entry, or the return after the last.
SeqAdvance ==
    /\ pc = "sequences"
    /\ seqIdx <= Len(COMMON_SEQUENCES)
    /\ Position(password, COMMON_SEQUENCES[seqIdx]) = 0
    /\ seqIdx' = seqIdx + 1
    /\ step' = IF seqIdx = Len(COMMON_SEQUENCES) THEN step + 1 ELSE step
    /\ UNCHANGED <<input, password, drains, info, entropy>>

RemoveRepeating ==
    /\ pc = "repeating"
    /\ password' = remove_repeating_characters(password)
    /\ step' = step + 1
    /\ UNCHANGED <<input, seqIdx, drains, info, entropy>>

\* Variant: the flags read from the text as given.
ClassifiedTextRaw == input

\* The text the six flags and the length are read from.

ClassifiedText == password

Classify ==
    /\ pc = "classify"
    /\ info' = PasswordInfoOf(ClassifiedText)
    /\ step' = step + 1
    /\ UNCHANGED <<input, password, seqIdx, drains, entropy>>

GetEntropy ==
    /\ pc = "done"
    /\ entropy' = log_power(Finite(info.base), info.length, 2)
    /\ step' = step + 1
    /\ UNCHANGED <<input, password, seqIdx, drains, info>>

Next ==
    \/ RemovePalindrome
    \/ SeqDrain
    \/ SeqAdvance
    \/ RemoveRepeating
    \/ Classify
    \/ GetEntropy

Spec == Init /\ [][Next]_vars

\* The calls on the inputs of one fragment fewer.
InitShort ==
    /\ input \in Texts(MaxFrags - 1)
    /\ password = input
    /\ step = 1
    /\ seqIdx = 1
    /\ drains = 0
    /\ info = PasswordInfoOf(<<>>)
    /\ entropy = Unset

SpecShort == InitShort /\ [][Next]_vars

\* for_password is one synchronous call: it runs on while a step is left.
FairSpec == SpecShort /\ WF_vars(Next)

\* ------------------------------------------------- notions of the claims -

\* a is b with some characters deleted: nothing inserted, altered, reordered.
RECURSIVE IsSubsequence(_, _)
IsSubsequence(a, b) ==
    IF a = <<>> THEN TRUE
    ELSE IF b = <<>> THEN FALSE
    ELSE IF Head(a) = Head(b) THEN IsSubsequence(Tail(a), Tail(b))
    ELSE IsSubsequence(a, Tail(b))

\* The sequence is a contiguous substring of the text.
Occurs(sequence, text) ==
    \E i \in 1..Len(text) :
        /\ i + Len(sequence) - 1 <= Len(text)
        /\ \A j \in 1..Len(sequence) : text[i + j - 1] = sequence[j]

\* The text reads the same in both directions, case ignored.
IsCaseInsensitivePalindrome(text) ==
    \A i \in 1..Len(text) :
        ToLowercase(text[i]) = ToLowercase(text[Len(text) + 1 - i])

\* The first character of every maximal run of equal characters, in order.
RECURSIVE RunHeads(_)
RunHeads(text) ==
    IF Len(text) <= 1 THEN text
    ELSE LET front == RunHeads(SubSeq(text, 1, Len(text) - 1))
         IN  IF text[Len(text)] = text[Len(text) - 1] THEN front
             ELSE Append(front, text[Len(text)])

\* The text has a character of the table.
HasClass(text, table) == Range(text) \cap Range(table) # {}

ClassTables ==
    {REPLACE_CHARS, SEPARATOR_CHARS, OTHER_SPECIAL_CHARS,
     LOWER_CHARS, UPPER_CHARS, DIGIT_CHARS}

\* The text with character c inserted after its first i characters.
Insert(text, c, i) == SubSeq(text, 1, i) \o <<c>> \o SubSeq(text, i + 1, Len(text))

\* The characters tried for insertion: the classified ones of the inputs.
InsertChars ==
    {c \in UNION {Range(f) : f \in Fragments} : \E t \in ClassTables : c \in Range(t)}

\* c belongs to a class of which the text has no character.
OfAbsentClass(c, text) ==
    \E t \in ClassTables : c \in Range(t) /\ ~HasClass(text, t)

Flags(r) ==
    <<r.has_replace, r.has_seperator, r.has_other_special,
      r.has_lower, r.has_upper, r.has_digit>>

\* Every class flagged in record r is flagged in record q.
FlagsWithin(r, q) == \A k \in 1..6 : Flags(r)[k] => Flags(q)[k]

\* for_password has returned the record.
Returned == pc \in {"done", "entropy"}

\* remove_common_sequences has returned.
SequencesReturned == seqIdx = Len(COMMON_SEQUENCES) + 1

\* The ASCII punctuation characters: U+0021-002F, 003A-0040, 005B-0060,
\* 007B-007E.
AsciiPunctuation ==
    {"!", "\"", "#", "$", "%", "&", "'", "(", ")", "*", "+", ",", "-", ".", "/",
     ":", ";", "<", "=", ">", "?", "@",
     "[", "\\", "]", "^", "_", GRAVE,
     "{", "|", "}", "~"}

\* ------------------------------------------------------------ claims -----

C2_NoEntryOccursAtReturn ==
    (SequencesReturned /\ pc = "repeating") =>
        \A k \in 1..Len(COMMON_SEQUENCES) : ~Occurs(COMMON_SEQUENCES[k], password)

\* C2 amended: removal is iterative per entry: whenever the loop of an entry
\* ends (the next entry is taken up, or the function returns after the
\* last), that entry does not occur in the working text, whether its
\* occurrences were in the text from the start or were formed by the
\* removal of an earlier occurrence of it; an entry can occur again once a
\* later entry has been removed.
C2_EntryGoneWhenItsLoopEnds ==
    [][seqIdx' # seqIdx => ~Occurs(COMMON_SEQUENCES[seqIdx], password')]_vars

\* C2 witness: the loop of the first entry has ended after two removals, of
\* which the second was of an occurrence the first one formed.
C2_SecondOccurrenceFormedByRemoval ==
    /\ pc = "sequences"
    /\ seqIdx = 2
    /\ drains = 2
    /\ Cardinality({i \in 1..Len(input) :
                       /\ i + 3 <= Len(input)
                       /\ SubSeq(input, i, i + 3) = COMMON_SEQUENCES[1]}) = 1
    /\ ~Occurs(COMMON_SEQUENCES[1], password)

\* C3: each flag of the returned record is true exactly when the reduced
\* text has a character of the class's table, and base is the sum of the
\* table sizes 5, 5, 22, 26, 26, 10 over the classes whose flag is true, at
\* most their total.
C3_FlagsAndBaseOfReducedText ==
    Returned =>
        /\ info.has_replace = HasClass(password, REPLACE_CHARS)
        /\ info.has_seperator = HasClass(password, SEPARATOR_CHARS)
        /\ info.has_other_special = HasClass(password, OTHER_SPECIAL_CHARS)
        /\ info.has_lower = HasClass(password, LOWER_CHARS)
        /\ info.has_upper = HasClass(password, UPPER_CHARS)
        /\ info.has_digit = HasClass(password, DIGIT_CHARS)
        /\ info.base = (IF info.has_replace THEN 5 ELSE 0)
                     + (IF info.has_seperator THEN 5 ELSE 0)
                     + (IF info.has_other_special THEN 22 ELSE 0)
                     + (IF info.has_lower THEN 26 ELSE 0)
                     + (IF info.has_upper THEN 26 ELSE 0)
                     + (IF info.has_digit THEN 10 ELSE 0)
        /\ info.base <= 5 + 5 + 22 + 26 + 26 + 10
        /\ info.length = Len(password)

\* C3 witness: a returned record of a text whose reduction removed its only
\* digits and left several lower-case letters and an upper-case one: the
\* digit flag is false and base is 26 + 26.
C3_ReducedTextClassified ==
    /\ Returned
    /\ HasClass(input, DIGIT_CHARS)
    /\ ~info.has_digit
    /\ Cardinality({i \in 1..Len(password) : password[i] \in Range(LOWER_CHARS)}) >= 2
    /\ info.has_upper
    /\ info.base = 52

\* C4: get_entropy returns a finite value or negative infinity, never NaN
\* nor positive infinity: zero when the reduced length is 0, negative
\* infinity when base is 0 and the reduced length is positive.
C4_EntropyFiniteOrNegInf ==
    pc = "entropy" =>
        /\ entropy.kind \in {"finite", "neg_inf"}
        /\ info.length = 0 => entropy = Finite(0)
        /\ (info.base = 0 /\ info.length > 0) => entropy = NegInf

\* C4 witness: the entropy of a reduced text of unclassified characters
\* only, after a reduction that removed classified ones.
C4_NegInfReached ==
    /\ pc = "entropy"
    /\ info.base = 0
    /\ info.length > 0
    /\ Len(input) > Len(password)
    /\ entropy = NegInf

\* remove_palindrome has just returned: its argument was the input.
PalindromeReturned == pc = "sequences" /\ seqIdx = 1 /\ drains = 0

\* C5: remove_palindrome truncates a text of length n to its first
\* ceil(n/2) characters, their case unchanged and the middle character of an
\* odd-length text kept, when the whole text reads the same in both
\* directions with case ignored, and leaves any other text unchanged.
C5_PalindromeHalved ==
    PalindromeReturned =>
        /\ IsCaseInsensitivePalindrome(input)
               => password = SubSeq(input, 1, (Len(input) + 1) \div 2)
        /\ ~IsCaseInsensitivePalindrome(input) => password = input

\* C5 witness: an odd-length palindrome of mixed case cut to its first half
\* with the middle character.
C5_OddMixedCasePalindromeHalved ==
    /\ PalindromeReturned
    /\ Len(input) = 3
    /\ input[1] # input[3]
    /\ input[1] # input[2]
    /\ password = <<input[1], input[2]>>

\* C6: remove_repeating_characters keeps the first character of every
\* maximal run of equal adjacent characters and nothing else changes: equal
\* characters that are not adjacent are both kept, the result has no two
\* equal adjacent characters, and collapsing it again changes nothing.
C6_RunsCollapsed ==
    [][pc = "repeating" =>
          /\ password' = RunHeads(password)
          /\ \A i \in 1..(Len(password') - 1) : password'[i] # password'[i + 1]
          /\ remove_repeating_characters(password') = password']_vars

\* C6 witness: a run of two collapsed between equal characters that are
\* kept because they are not adjacent.
C6_RunCollapsedApartKept ==
    /\ pc = "classify"
    /\ input = <<"s", "d", "f", "_", "_", "s", "d", "f">>
    /\ password = <<"s", "d", "f", "_", "s", "d", "f">>

C8_TablesPartitionPunctuation ==
    /\ \A c \in AsciiPunctuation \cap Range(input) :
          Cardinality({t \in {REPLACE_CHARS, SEPARATOR_CHARS, OTHER_SPECIAL_CHARS} :
                          c \in Range(t)}) = 1
    /\ \A c \in AsciiPunctuation :
          Cardinality({t \in {REPLACE_CHARS, SEPARATOR_CHARS, OTHER_SPECIAL_CHARS} :
                          c \in Range(t)}) = 1
    /\ Range(OTHER_SPECIAL_CHARS)
          = AsciiPunctuation \ (Range(REPLACE_CHARS) \cup Range(SEPARATOR_CHARS))
    /\ \A t \in ClassTables : \A u \in ClassTables :
          t # u => Range(t) \cap Range(u) = {}

\* C9: remove_common_sequences terminates: every iteration of the loop of
\* an entry deletes a non-empty span, so the text gets strictly shorter, the
\* deletions number at most the length of the input, and the entries are
\* taken up one after the other in table order until the last is done.
C9_SequenceRemoverTerminates ==
    /\ <>SequencesReturned
    /\ [][drains' # drains => Len(password') < Len(password)]_vars
    /\ [](drains <= Len(input))
    /\ [][seqIdx' = seqIdx \/ seqIdx' = seqIdx + 1]_vars

\* C9 witness: the function has returned after deleting two spans, the
\* whole of the text.
C9_ReturnedAfterTwoDeletions ==
    /\ SequencesReturned
    /\ drains = 2
    /\ Len(input) > 0
    /\ password = <<>>

\* C10: the working text only loses characters: after every reduction step
\* and every single deletion it is a subsequence of what it was before, so
\* the reduced text is a subsequence of the input and the reduced length is
\* at most the length of the input.
C10_OnlyLosesCharacters ==
    /\ [][IsSubsequence(password', password)]_vars
    /\ [](IsSubsequence(password, input))
    /\ [](Returned => info.length <= Len(input))

\* C10 witness: a record returned after a deletion of a known sequence and
\* the run collapse each took characters away and left some.
C10_StepsShortened ==
    /\ Returned
    /\ drains > 0
    /\ Len(password) < Len(remove_common_sequences(remove_palindrome(input)))
    /\ Len(password) > 0

====
